---- MODULE Spec2Model ----
(***************************************************************************)
(* Conversation state and response-generation pipeline of the debate bot:  *)
(* Message / Conversation documents, the MongoRepository, the              *)
(* ConversationService, AIService.generate_debate_response and the         *)
(* POST /conversations handler that strings them together.                 *)
(***************************************************************************)
EXTENDS Integers, Sequences, FiniteSets, TLC

(***************************************************************************)
(* Bounds of the model.                                                    *)
(***************************************************************************)
\* number of turns the request threads start altogether
MaxTurns == 2
\* last reading of the wall clock; the clock stops there
MaxTime == 3
\* number of calls made on the stand-alone Conversation object
MaxOps == 4
\* clock ticks per millisecond (the store keeps milliseconds only)
TicksPerMilli == 2

(***************************************************************************)
(* Program constants.                                                      *)
(***************************************************************************)
MAX_TEXT_LENGTH == 2000
MAX_TOPIC_LENGTH == 200
ROLE_CHOICES == {"user", "bot"}

(***************************************************************************)
(* Python strings.  A string is kept as its content between the first and  *)
(* the last non-whitespace character (a tag c and a length n) and the      *)
(* number of whitespace characters before (l) and after (t) it.  A string  *)
(* without any non-whitespace character has n = 0 and its whitespace in l. *)
(* None is a value of its own.                                             *)
(***************************************************************************)
Str(c, n, l, t) == [c |-> c, n |-> n, l |-> l, t |-> t]
None == Str("None", 0, 0, 0)
EmptyStr == Str("", 0, 0, 0)
Blank == Str("", 0, 2, 0)

\* len(s)
Len_(s) == s.l + s.n + s.t
\* truth value of a str-or-None: None and "" are false
Truthy(s) == s # None /\ Len_(s) > 0
\* s.strip()
Strip(s) == [s EXCEPT !.l = 0, !.t = 0]

(***************************************************************************)
(* Message (models/message.py).                                            *)
(***************************************************************************)
\* Message(role=role, text=text): timestamp defaults to datetime.utcnow()
Message(role, text, clock) == [role |-> role, text |-> text, timestamp |-> clock]
NoMessage == Message("none", None, 0)

\* Message.clean: strips the text, rejects an empty one
MessageClean(m) ==
  LET text == IF m.text # None THEN Strip(m.text) ELSE m.text
      m2 == [m EXCEPT !.text = text]
  IN IF ~Truthy(text)
       THEN [exc |-> "ValidationError", msg |-> m2]
       ELSE [exc |-> "None", msg |-> m2]

\* the declared field constraints of Message: role required with choices,
\* text required with min_length 1 and max_length MAX_TEXT_LENGTH
MessageFieldsValid(m) ==
  /\ m.role \in ROLE_CHOICES
  /\ m.text # None
  /\ Len_(m.text) >= 1
  /\ Len_(m.text) <= MAX_TEXT_LENGTH

(***************************************************************************)
(* Conversation (models/conversation.py).  id = NoId until the first save. *)
(* changed is the set of fields assigned since the document was loaded or  *)
(* saved: a save of an already stored document writes these fields only.   *)
(***************************************************************************)
NoId == 0

\* Conversation(topic=topic): created_at and updated_at default to utcnow()
NewConversation(topic, clock) ==
  [id |-> NoId, topic |-> topic, viewpoint |-> None, messages |-> <<>>,
   created_at |-> clock, updated_at |-> clock, changed |-> {}]

\* assignment to a document field: the field is marked as changed when the
\* value differs from the one held
Changed(c, field, old, new) ==
  IF old # new THEN c.changed \cup {field} ELSE c.changed

\* add_message, line 72: role in Message.ROLE_CHOICES
RoleAllowed_any(role) == TRUE

RoleAllowed(role) == role \in ROLE_CHOICES

\* add_message, lines 78-79: the message is appended and updated_at set
AppendMessage_in_front(c, msg, clock) ==
  [c EXCEPT !.messages = <<msg>> \o @,
            !.updated_at = clock,
            !.changed = Changed(c, "updated_at", c.updated_at, clock) \cup {"messages"}]

AppendMessage_keeps_updated_at(c, msg, clock) ==
  [c EXCEPT !.messages = Append(@, msg),
            !.changed = @ \cup {"messages"}]

AppendMessage_dedup(c, msg, clock) ==
  [c EXCEPT !.messages =
              Append(SelectSeq(@, LAMBDA m : ~(m.role = msg.role /\ m.text = msg.text)), msg),
            !.updated_at = clock,
            !.changed = Changed(c, "updated_at", c.updated_at, clock) \cup {"messages"}]

AppendMessage(c, msg, clock) ==
  [c EXCEPT !.messages = Append(@, msg),
            !.updated_at = clock,
            !.changed = Changed(c, "updated_at", c.updated_at, clock) \cup {"messages"}]

\* Conversation.add_message; result: the exception raised, the conversation
\* afterwards and the Message returned
add_message(c, role, text, clock) ==
  IF ~RoleAllowed(role)
    THEN [exc |-> "ValidationError", conv |-> c, ret |-> NoMessage]
    ELSE LET cleaned == MessageClean(Message(role, text, clock))
         IN IF cleaned.exc # "None"
              THEN [exc |-> cleaned.exc, conv |-> c, ret |-> NoMessage]
              ELSE [exc |-> "None",
                    conv |-> AppendMessage(c, cleaned.msg, clock),
                    ret |-> cleaned.msg]

\* Conversation.clean: strips topic and viewpoint, rejects an empty message
\* list, then stamps updated_at
ConversationClean(c, clock) ==
  LET topic == IF c.topic # None THEN Strip(c.topic) ELSE c.topic
      viewpoint == IF c.viewpoint # None THEN Strip(c.viewpoint) ELSE c.viewpoint
      c2 == [c EXCEPT !.topic = topic, !.viewpoint = viewpoint,
                      !.changed = Changed(c, "topic", c.topic, topic)
                                    \cup (IF c.viewpoint # viewpoint THEN {"viewpoint"} ELSE {})]
  IN IF c2.messages = <<>>
       THEN [exc |-> "ValidationError", conv |-> c2]
       ELSE [exc |-> "None",
             conv |-> [c2 EXCEPT !.updated_at = clock,
                                 !.changed = Changed(c2, "updated_at", c2.updated_at, clock)]]

ConversationFieldsValid_topic_unbounded(c) ==
  /\ c.viewpoint # None => Len_(c.viewpoint) <= MAX_TOPIC_LENGTH
  /\ c.messages # <<>>
  /\ \A i \in 1..Len(c.messages) :
       /\ MessageClean(c.messages[i]).exc = "None"
       /\ MessageFieldsValid(MessageClean(c.messages[i]).msg)

\* the declared field constraints of Conversation: topic and viewpoint with
\* max_length MAX_TOPIC_LENGTH, messages required, every embedded Message
\* cleaned and valid
ConversationFieldsValid(c) ==
  /\ c.topic # None => Len_(c.topic) <= MAX_TOPIC_LENGTH
  /\ c.viewpoint # None => Len_(c.viewpoint) <= MAX_TOPIC_LENGTH
  /\ c.messages # <<>>
  /\ \A i \in 1..Len(c.messages) :
       /\ MessageClean(c.messages[i]).exc = "None"
       /\ MessageFieldsValid(MessageClean(c.messages[i]).msg)

\* Document.validate(): clean() first, then the field constraints; the
\* changes clean() made stay also when validation fails
Validate(c, clock) ==
  LET cleaned == ConversationClean(c, clock)
      c2 == [cleaned.conv EXCEPT !.messages =
               [i \in 1..Len(@) |-> MessageClean(@[i]).msg]]
  IN IF cleaned.exc = "None" /\ ConversationFieldsValid(cleaned.conv)
       THEN [exc |-> "None", conv |-> c2]
       ELSE [exc |-> "ValidationError", conv |-> c2]

\* Conversation.get_last_user_message / get_last_bot_message: the messages
\* are scanned from the last to the first, the first one of the role is
\* returned, None (NoMessage) when the scan ends without one
RECURSIVE get_last_message_first_found(_, _)
get_last_message_first_found(messages, role) ==
  IF messages = <<>> THEN NoMessage
  ELSE IF Head(messages).role = role THEN Head(messages)
  ELSE get_last_message_first_found(Tail(messages), role)

RECURSIVE get_last_message(_, _)
get_last_message(messages, role) ==
  IF messages = <<>> THEN NoMessage
  ELSE IF messages[Len(messages)].role = role THEN messages[Len(messages)]
  ELSE get_last_message(SubSeq(messages, 1, Len(messages) - 1), role)

get_last_user_message(c) == get_last_message(c.messages, "user")
get_last_bot_message(c) == get_last_message(c.messages, "bot")

\* A string put together from others is the sequence of its parts.
\* str(role), the ": " of the format string and the "\n" of the join:
RoleStr(role) == Str(role, IF role = "user" THEN 4 ELSE 3, 0, 0)
ColonSpace == Str(":", 1, 0, 1)
NewLine == Str("LF", 0, 1, 0)

\* s.count("\n"): the line breaks in a string
CountLF(s) == IF s = NewLine \/ s.c = "one LF two" THEN 1 ELSE 0

\* f"{msg.role}: {msg.text}"
Line(msg) == << RoleStr(msg.role), ColonSpace, msg.text >>

\* "\n".join(lines)
RECURSIVE Join(_)
Join(lines) ==
  IF lines = <<>> THEN <<>>
  ELSE IF Len(lines) = 1 THEN lines[1]
  ELSE lines[1] \o <<NewLine>> \o Join(Tail(lines))

\* Conversation.to_conversation_string
to_conversation_string_bot_first(c) ==
  Join([i \in 1..Len(c.messages) |-> Line(c.messages[Len(c.messages) + 1 - i])])

to_conversation_string(c) ==
  Join([i \in 1..Len(c.messages) |-> Line(c.messages[i])])

(***************************************************************************)
(* The document store and MongoRepository (database/repositories/base.py). *)
(* The store is the sequence of the documents inserted so far; a document  *)
(* has the id of its position.  Ids: None, "" (EmptyId), a string that is  *)
(* no ObjectId (MalformedId), and ObjectIds 1, 2, ...                      *)
(***************************************************************************)
NoneId == -1
EmptyId == 0
MalformedId == -2

\* ObjectId.is_valid
ObjectIdIsValid(id) == id >= 1

NoConv ==
  [id |-> NoneId, topic |-> None, viewpoint |-> None, messages |-> <<>>,
   created_at |-> 0, updated_at |-> 0, changed |-> {}]

\* a DateTimeField is stored with millisecond precision
ToMongoTime_round_up(time) ==
  ((time + TicksPerMilli - 1) \div TicksPerMilli) * TicksPerMilli

ToMongoTime(time) == (time \div TicksPerMilli) * TicksPerMilli

\* the stored form of a document
ToMongo(c) ==
  [topic |-> c.topic, viewpoint |-> c.viewpoint,
   messages |-> [i \in 1..Len(c.messages) |->
                   [c.messages[i] EXCEPT !.timestamp = ToMongoTime(@)]],
   created_at |-> ToMongoTime(c.created_at),
   updated_at |-> ToMongoTime(c.updated_at)]

\* the document loaded from its stored form
FromMongo(id, d) ==
  [id |-> id, topic |-> d.topic, viewpoint |-> d.viewpoint,
   messages |-> d.messages, created_at |-> d.created_at,
   updated_at |-> d.updated_at, changed |-> {}]

DocumentWrite_push(st, e) ==
  IF e.id = NoId
    THEN [conv |-> [e EXCEPT !.id = Len(st) + 1, !.changed = {}],
          store |-> Append(st, ToMongo(e)),
          wrote |-> TRUE]
    ELSE [conv |-> [e EXCEPT !.changed = {}],
          store |-> [st EXCEPT ![e.id] =
                       [f \in DOMAIN @ |->
                          IF f \notin e.changed THEN @[f]
                          ELSE IF f = "messages" /\ Len(e.messages) >= 2
                            THEN @[f] \o SubSeq(ToMongo(e)[f], Len(e.messages) - 1,
                                                Len(e.messages))
                            ELSE ToMongo(e)[f]]],
          wrote |-> e.changed # {}]

\* the write of Document.save(): a document without id is inserted and
\* gets its id, of a stored one the changed fields are written
DocumentWrite(st, e) ==
  IF e.id = NoId
    THEN [conv |-> [e EXCEPT !.id = Len(st) + 1, !.changed = {}],
          store |-> Append(st, ToMongo(e)),
          wrote |-> TRUE]
    ELSE [conv |-> [e EXCEPT !.changed = {}],
          store |-> [st EXCEPT ![e.id] =
                       [f \in DOMAIN @ |->
                          IF f \in e.changed THEN ToMongo(e)[f] ELSE @[f]]],
          wrote |-> e.changed # {}]

\* MongoRepository.save: entity.validate(), then entity.save(), which
\* validates once more and writes; a validation error and any other failure
\* become RepositoryError.  storeOk = FALSE is a failure of the store
\* during entity.save().
save_unvalidated(st, entity, clock, storeOk) ==
  LET w == DocumentWrite(st, entity)
  IN IF ~storeOk
       THEN [exc |-> "RepositoryError", conv |-> entity, store |-> st, wrote |-> FALSE]
       ELSE [exc |-> "None", conv |-> w.conv, store |-> w.store, wrote |-> w.wrote]

save(st, entity, clock, storeOk) ==
  LET v1 == Validate(entity, clock)
      v2 == Validate(v1.conv, clock)
      w == DocumentWrite(st, v2.conv)
  IN IF v1.exc # "None"
       THEN [exc |-> "RepositoryError", conv |-> v1.conv, store |-> st, wrote |-> FALSE]
       ELSE IF v2.exc # "None" \/ ~storeOk
         THEN [exc |-> "RepositoryError", conv |-> v2.conv, store |-> st, wrote |-> FALSE]
         ELSE [exc |-> "None", conv |-> w.conv, store |-> w.store, wrote |-> w.wrote]

get_by_id_no_DoesNotExist(st, entity_id, storeOk) ==
  IF storeOk /\ entity_id \in 1..Len(st)
    THEN [exc |-> "None", conv |-> FromMongo(entity_id, st[entity_id])]
    ELSE [exc |-> "RepositoryError", conv |-> NoConv]

\* MongoRepository.get_by_id: the document, None when there is none with
\* this id, RepositoryError on any other failure
get_by_id(st, entity_id, storeOk) ==
  IF ~storeOk
    THEN [exc |-> "RepositoryError", conv |-> NoConv]
    ELSE IF entity_id \in 1..Len(st)
      THEN [exc |-> "None", conv |-> FromMongo(entity_id, st[entity_id])]
      ELSE [exc |-> "None", conv |-> NoConv]

(***************************************************************************)
(* ConversationRepository (database/repositories/conversation_repository). *)
(***************************************************************************)
repository_create_conversation_unsaved(st, topic, user_message, clock, storeOk) ==
  LET a == add_message(NewConversation(topic, clock), "user", user_message, clock)
  IN [exc |-> a.exc, conv |-> a.conv, store |-> st, wrote |-> FALSE]

\* ConversationRepository.create_conversation
repository_create_conversation(st, topic, user_message, clock, storeOk) ==
  LET a == add_message(NewConversation(topic, clock), "user", user_message, clock)
  IN IF a.exc # "None"
       THEN [exc |-> a.exc, conv |-> a.conv, store |-> st, wrote |-> FALSE]
       ELSE save(st, a.conv, clock, storeOk)

(***************************************************************************)
(* ConversationService (services/conversation_service.py).                 *)
(***************************************************************************)
\* ConversationService.create_conversation(message)
service_create_conversation(st, message, clock, storeOk) ==
  IF ~Truthy(message) \/ ~Truthy(Strip(message))
    THEN [exc |-> "ValueError", conv |-> NoConv, store |-> st,
          reads |-> 0, writes |-> 0]
    ELSE LET r == repository_create_conversation(st, None, message, clock, storeOk)
         IN [exc |-> IF r.exc = "RepositoryError" THEN "ValidationError" ELSE r.exc,
             conv |-> r.conv, store |-> r.store,
             reads |-> 0, writes |-> IF r.wrote THEN 1 ELSE 0]

service_get_conversation_unchecked_id(st, conversation_id, new_message, clock, storeOk) ==
  IF conversation_id = NoneId \/ conversation_id = EmptyId
    THEN [exc |-> "ValueError", conv |-> NoConv, fetched |-> NoConv, reads |-> 0]
    ELSE LET g == get_by_id(st, conversation_id, storeOk)
         IN IF g.exc # "None"
              THEN [exc |-> g.exc, conv |-> NoConv, fetched |-> NoConv, reads |-> 1]
              ELSE IF g.conv = NoConv
                THEN [exc |-> "ConversationNotFoundError", conv |-> NoConv,
                      fetched |-> NoConv, reads |-> 1]
                ELSE IF Truthy(new_message) /\ Truthy(Strip(new_message))
                  THEN LET a == add_message(g.conv, "user", new_message, clock)
                       IN [exc |-> a.exc, conv |-> a.conv, fetched |-> g.conv, reads |-> 1]
                  ELSE [exc |-> "None", conv |-> g.conv, fetched |-> g.conv, reads |-> 1]

\* ConversationService.get_conversation(conversation_id, new_message);
\* fetched is the conversation as the repository returned it
service_get_conversation(st, conversation_id, new_message, clock, storeOk) ==
  IF conversation_id = NoneId \/ conversation_id = EmptyId
    THEN [exc |-> "ValueError", conv |-> NoConv, fetched |-> NoConv, reads |-> 0]
    ELSE IF ~ObjectIdIsValid(conversation_id)
      THEN [exc |-> "ValueError", conv |-> NoConv, fetched |-> NoConv, reads |-> 0]
      ELSE LET g == get_by_id(st, conversation_id, storeOk)
           IN IF g.exc # "None"
                THEN [exc |-> g.exc, conv |-> NoConv, fetched |-> NoConv, reads |-> 1]
                ELSE IF g.conv = NoConv
                  THEN [exc |-> "ConversationNotFoundError", conv |-> NoConv,
                        fetched |-> NoConv, reads |-> 1]
                  ELSE IF Truthy(new_message) /\ Truthy(Strip(new_message))
                    THEN LET a == add_message(g.conv, "user", new_message, clock)
                         IN [exc |-> a.exc, conv |-> a.conv, fetched |-> g.conv, reads |-> 1]
                    ELSE [exc |-> "None", conv |-> g.conv, fetched |-> g.conv, reads |-> 1]

service_save_conversation_reraises(st, conversation, clock, storeOk) ==
  LET r == save(st, conversation, clock, storeOk)
  IN [exc |-> r.exc,
      conv |-> r.conv, store |-> r.store, writes |-> IF r.wrote THEN 1 ELSE 0]

\* ConversationService.save_conversation
service_save_conversation(st, conversation, clock, storeOk) ==
  LET r == save(st, conversation, clock, storeOk)
  IN [exc |-> IF r.exc = "RepositoryError" THEN "ValidationError" ELSE r.exc,
      conv |-> r.conv, store |-> r.store, writes |-> IF r.wrote THEN 1 ELSE 0]

(***************************************************************************)
(* AIService (services/ai_service.py).  A reply of the model is            *)
(*   kind "raise"   the client call raises                                 *)
(*   kind "empty"   the completion has no content                          *)
(*   kind "notjson" the content is no JSON                                 *)
(*   kind "scalar"  the content is a JSON number, true, false or null      *)
(*   kind "string"  the content is a JSON string; hasText says whether     *)
(*                  "text" occurs in it                                    *)
(*   kind "array"   the content is a JSON array; hasText says whether the  *)
(*                  string "text" is one of its elements                   *)
(*   kind "object"  the content is a JSON object; hasText / hasTopic say   *)
(*                  whether it has the keys, text / topic are the values   *)
(*                  (None for a JSON null)                                 *)
(***************************************************************************)
Reply(kind, hasText, text, hasTopic, topic) ==
  [kind |-> kind, hasText |-> hasText, text |-> text,
   hasTopic |-> hasTopic, topic |-> topic]
NoReply == Reply("none", FALSE, None, FALSE, None)

generate_response_exc_all_parsing(reply) ==
  CASE reply.kind \in {"raise", "empty", "notjson"} -> "ResponseParsingError"
    [] OTHER -> "None"

generate_response_exc_empty_unparsed(reply) ==
  CASE reply.kind = "raise" -> "OpenAIError"
    [] reply.kind = "empty" -> "ResponseParsingError"
    [] reply.kind = "notjson" -> "ResponseParsingError"
    [] OTHER -> "None"

\* AIService._generate_response: the exception it raises for the reply
generate_response_exc(reply) ==
  CASE reply.kind = "raise" -> "OpenAIError"
    [] reply.kind = "empty" -> "OpenAIError"
    [] reply.kind = "notjson" -> "ResponseParsingError"
    [] OTHER -> "None"

(***************************************************************************)
(* The prompt catalog of AIService.  _prompts is what yaml.safe_load made  *)
(* of the prompts file: prompt types, each with styles, each with the text *)
(* of a string.Template.  A template text is kept as its text and the      *)
(* names of its $placeholders.  The catalog is kept as one map from        *)
(* (type, style) to the text, NoTemplate where the file has no such entry. *)
(***************************************************************************)
TemplateText(text, holes) == [text |-> text, holes |-> holes]
NoTemplate == TemplateText(None, {})

PromptTypes == {"debate", "story"}
Styles == {"default", "formal"}
Keys == PromptTypes \X Styles

\* the class attributes of AIService: _instance, _client, _prompts
NotLoaded == [loaded |-> FALSE, entries |-> [k \in Keys |-> NoTemplate]]
Loaded(entries) == [loaded |-> TRUE, entries |-> entries]
NoService == [instance |-> FALSE, client |-> FALSE, prompts |-> NotLoaded]

\* AIService(): __new__ makes the instance when there is none, __init__
\* makes the client when there is none and loads the prompts file when
\* _prompts is None; file is what yaml.safe_load returns for the file
AIServiceNew(a, file) ==
  [instance |-> TRUE, client |-> TRUE,
   prompts |-> IF a.prompts.loaded THEN a.prompts ELSE file]

\* prompts[prompt_type][style] raises KeyError
Missing(prompts, prompt_type, style) ==
  \/ <<prompt_type, style>> \notin Keys
  \/ prompts.entries[<<prompt_type, style>>] = NoTemplate

\* AIService.get_prompt_template: the exception it raises and the Template
\* it returns
get_prompt_template(prompts, prompt_type, style) ==
  IF ~prompts.loaded
    THEN [exc |-> "TypeError", template |-> NoTemplate]
    ELSE IF ~Missing(prompts, prompt_type, style)
      THEN [exc |-> "None", template |-> prompts.entries[<<prompt_type, style>>]]
      ELSE IF ~Missing(prompts, "debate", "default")
        THEN [exc |-> "None", template |-> prompts.entries[<<"debate", "default">>]]
        ELSE [exc |-> "KeyError", template |-> NoTemplate]

\* template.substitute(conversation=..., topic=...): KeyError for a
\* placeholder that is neither of the two
substitute_exc(template) ==
  IF template.holes \subseteq {"conversation", "topic"} THEN "None" ELSE "KeyError"

\* generate_debate_response, lines 142-144: a topic of the reply that is
\* present and true replaces the topic of the conversation
UpdateTopic_never(c, reply) == c

UpdateTopic_when_present(c, reply) ==
  IF reply.hasTopic
    THEN [c EXCEPT !.topic = reply.topic,
                   !.changed = Changed(c, "topic", c.topic, reply.topic)]
    ELSE c

UpdateTopic(c, reply) ==
  IF reply.hasTopic /\ Truthy(reply.topic)
    THEN [c EXCEPT !.topic = reply.topic,
                   !.changed = Changed(c, "topic", c.topic, reply.topic)]
    ELSE c

\* generate_debate_response, lines 129-133: the exception of
\* get_prompt_template('debate', 'default') or of substitute
prompt_exc(prompts) ==
  LET g == get_prompt_template(prompts, "debate", "default")
  IN IF g.exc # "None" THEN g.exc ELSE substitute_exc(g.template)

TextMissing_never(reply) == FALSE

\* generate_debate_response, line 139: "text" not in ai_response
TextMissing(reply) == ~reply.hasText

generate_debate_response_retries(c, prompts, reply, clock) ==
  IF c = NoConv \/ c.messages = <<>>
    THEN [exc |-> "ValueError", conv |-> c, calls |-> 0]
    ELSE IF prompt_exc(prompts) # "None"
      THEN [exc |-> "BotError", conv |-> c, calls |-> 0]
    ELSE IF generate_response_exc(reply) # "None"
      THEN [exc |-> generate_response_exc(reply), conv |-> c, calls |-> 2]
      ELSE IF reply.kind = "scalar"
        THEN [exc |-> "BotError", conv |-> c, calls |-> 1]
        ELSE IF TextMissing(reply)
          THEN [exc |-> "ResponseParsingError", conv |-> c, calls |-> 1]
          ELSE IF reply.kind # "object"
            THEN [exc |-> "BotError", conv |-> c, calls |-> 1]
            ELSE LET c2 == UpdateTopic(c, reply)
                     a == add_message(c2, "bot", reply.text, clock)
                 IN IF a.exc # "None"
                      THEN [exc |-> "BotError", conv |-> a.conv, calls |-> 1]
                      ELSE [exc |-> "None", conv |-> a.conv, calls |-> 1]

\* AIService.generate_debate_response; the conversation is changed in
\* place, so conv is the object as the call leaves it also when it raises.
\* A failure of the prompt is a KeyError or TypeError and becomes BotError;
\* a JSON number, true, false or null makes line 139 raise TypeError, a
\* JSON string or array with "text" in it makes the subscript of line 143
\* or 147 raise TypeError: BotError again.
generate_debate_response(c, prompts, reply, clock) ==
  IF c = NoConv \/ c.messages = <<>>
    THEN [exc |-> "ValueError", conv |-> c, calls |-> 0]
    ELSE IF prompt_exc(prompts) # "None"
      THEN [exc |-> "BotError", conv |-> c, calls |-> 0]
    ELSE IF generate_response_exc(reply) # "None"
      THEN [exc |-> generate_response_exc(reply), conv |-> c, calls |-> 1]
      ELSE IF reply.kind = "scalar"
        THEN [exc |-> "BotError", conv |-> c, calls |-> 1]
        ELSE IF TextMissing(reply)
          THEN [exc |-> "ResponseParsingError", conv |-> c, calls |-> 1]
          ELSE IF reply.kind # "object"
            THEN [exc |-> "BotError", conv |-> c, calls |-> 1]
            ELSE LET c2 == UpdateTopic(c, reply)
                     a == add_message(c2, "bot", reply.text, clock)
                 IN IF a.exc # "None"
                      THEN [exc |-> "BotError", conv |-> a.conv, calls |-> 1]
                      ELSE [exc |-> "None", conv |-> a.conv, calls |-> 1]

(***************************************************************************)
(* POST /conversations (api/v1/conversation.py).                           *)
(***************************************************************************)
\* isinstance(exc, cls) for the exception classes of services/exceptions.py
IsInstance(exc, cls) ==
  \/ exc = cls
  \/ cls = "Exception"
  \/ cls = "BotError" /\ exc \in {"OpenAIError", "ResponseParsingError"}

NoBody == [conversation_id |-> NoneId, topic |-> None, messages |-> <<>>]

\* the JSON body of a successful turn
Body(c) ==
  [conversation_id |-> c.id, topic |-> c.topic,
   messages |-> [i \in 1..Len(c.messages) |->
                   [role |-> c.messages[i].role, text |-> c.messages[i].text]]]

Response(status, error, exc, body) ==
  [status |-> status, error |-> error, exc |-> exc, body |-> body]
NoResponse == Response(0, "", "None", NoBody)

\* the except clauses of create_conversation, in their order
ErrorResponse(exc) ==
  IF IsInstance(exc, "ValueError")
    THEN Response(400, "str(e)", exc, NoBody)
  ELSE IF IsInstance(exc, "ConversationNotFoundError")
    THEN Response(404, "str(e)", exc, NoBody)
  ELSE IF IsInstance(exc, "ValidationError")
    THEN Response(400, "Invalid data provided", exc, NoBody)
  ELSE IF IsInstance(exc, "BotError")
    THEN Response(500, "Failed to generate response", exc, NoBody)
  ELSE IF IsInstance(exc, "OpenAIError")
    THEN Response(503, "AI service temporarily unavailable", exc, NoBody)
  ELSE IF IsInstance(exc, "ResponseParsingError")
    THEN Response(500, "Invalid AI response format", exc, NoBody)
  ELSE Response(500, "Internal server error", exc, NoBody)

MessageMissing_no_strip(message) == ~Truthy(message)

\* create_conversation, line 29: not message or not message.strip()
MessageMissing(message) == ~Truthy(message) \/ ~Truthy(Strip(message))

(***************************************************************************)
(* Inputs.                                                                 *)
(***************************************************************************)
Hello == Str("hello", 5, 0, 0)
Mind == Str("mind", 26, 1, 1)
\* a text of two lines, with one line break inside
TwoLines == Str("one LF two", 7, 0, 0)
LongText == Str("long", MAX_TEXT_LENGTH, 0, 1)
TooLongText == Str("long", MAX_TEXT_LENGTH + 1, 0, 0)
Dogs == Str("dogs", 40, 0, 0)
DogsPadded == Str("dogs", 40, 1, 1)
Pets == Str("Pets", 4, 0, 0)
PetsPadded == Str("Pets", 4, 1, 0)
LongTopic == Str("topic", MAX_TOPIC_LENGTH, 0, 0)
TooLongTopic == Str("topic", MAX_TOPIC_LENGTH + 1, 0, 0)

\* template texts: the one of the tests, one with both placeholders, one
\* with a placeholder of its own, an empty one
TestPrompt == TemplateText(Str("Test prompt: $conversation", 26, 0, 0), {"conversation"})
TopicPrompt == TemplateText(Str("On $topic: $conversation", 24, 0, 0), {"conversation", "topic"})
ViewpointPrompt ==
  TemplateText(Str("As $viewpoint: $conversation", 28, 0, 0), {"conversation", "viewpoint"})
EmptyPrompt == TemplateText(EmptyStr, {})
TemplateTexts == {TestPrompt, TopicPrompt, ViewpointPrompt, EmptyPrompt}

\* the catalog of the tests: {'debate': {'default': 'Test prompt: $conversation'}}
TestCatalog ==
  Loaded([k \in Keys |-> IF k = <<"debate", "default">> THEN TestPrompt ELSE NoTemplate])
\* what yaml.safe_load can return for a prompts file; NotLoaded: an empty file
PromptFiles ==
  {Loaded(entries) : entries \in [Keys -> TemplateTexts \cup {NoTemplate}]} \cup {NotLoaded}
\* the selectors asked for
AskedTypes == PromptTypes \cup {"unknown"}
AskedStyles == Styles \cup {"unknown"}

\* the "message" of a request body (None: the key is missing)
RequestMessages == {None, EmptyStr, Blank, Hello, Mind, TooLongText}
\* the "conversation_id" of a request body
RequestIds == {NoneId, EmptyId, MalformedId, 1, 2}
\* the replies of the model
Replies ==
  { Reply("raise", FALSE, None, FALSE, None),
    Reply("empty", FALSE, None, FALSE, None),
    Reply("notjson", FALSE, None, FALSE, None),
    Reply("scalar", FALSE, None, FALSE, None),
    Reply("string", FALSE, None, FALSE, None),
    Reply("string", TRUE, None, FALSE, None),
    Reply("array", FALSE, None, FALSE, None),
    Reply("object", FALSE, None, TRUE, Pets),
    Reply("object", TRUE, Dogs, TRUE, Pets),
    Reply("object", TRUE, DogsPadded, TRUE, PetsPadded),
    Reply("object", TRUE, Dogs, FALSE, None),
    Reply("object", TRUE, Dogs, TRUE, EmptyStr),
    Reply("object", TRUE, Dogs, TRUE, Blank),
    Reply("object", TRUE, Dogs, TRUE, LongTopic),
    Reply("object", TRUE, Dogs, TRUE, TooLongTopic),
    Reply("object", TRUE, Blank, TRUE, Pets),
    Reply("object", TRUE, TooLongText, FALSE, None) }

(***************************************************************************)
(* State.                                                                  *)
(***************************************************************************)
Threads == {"t1", "t2"}

VARIABLES
  store,    \* the conversations collection
  now,      \* the last reading of the wall clock
  turns,    \* number of turns started
  pc,       \* per request thread: its place in create_conversation
  req,      \* per request thread: the request body
  conv,     \* per request thread: its conversation object
  fetched,  \* per request thread: the conversation as it was fetched
  reply,    \* per request thread: the reply the model gave in this turn
  io,       \* per request thread: store reads, store writes, model calls of the turn
  before,   \* per request thread: the store when the turn began
  resp,     \* per request thread: the response of the turn
  obj,      \* a Conversation object used directly
  last,     \* the last call made on obj or with it
  ops,      \* number of calls made on obj
  out,      \* the string the last call on obj returned
  ai,       \* the class attributes of AIService
  lookup,   \* the last call of get_prompt_template
  cls_instance, \* AIService._instance: 0 for None, else the instance
  heap,     \* the AIService instances made: their _client and _prompts
  made,     \* how many instances and clients were made, files loaded
  ipc,      \* per request thread: its place in AIService()
  self,     \* per request thread: the instance __new__ returned to it
  svc,      \* per request thread: what its last AIService() gave it
  uses      \* number of calls of AIService() begun

turnVars == <<turns, pc, req, conv, fetched, reply, io, before, resp>>
objVars == <<obj, last, ops, out>>
aiVars == <<ai, lookup>>
initVars == <<cls_instance, heap, made, ipc, self, svc, uses>>
vars == <<store, now, turnVars, objVars, aiVars, initVars>>

NoRequest == [message |-> None, conversation_id |-> NoneId]
NoIo == [reads |-> 0, writes |-> 0, calls |-> 0, faults |-> 0]

\* a call on the Conversation object: its arguments, the clock reading it
\* got, the object and the store before it, the exception raised and the
\* Message returned
Call(op, role, text, clock, pre, preStore, exc, ret) ==
  [op |-> op, role |-> role, text |-> text, clock |-> clock, pre |-> pre,
   preStore |-> preStore, exc |-> exc, ret |-> ret]
NoCall == Call("none", "none", None, 0, NoConv, <<>>, "None", NoMessage)

\* a call of get_prompt_template: its arguments, the exception raised, the
\* Template returned and the exception of substitute on it
Lookup(prompt_type, style, exc, template, render) ==
  [prompt_type |-> prompt_type, style |-> style, exc |-> exc,
   template |-> template, render |-> render]
NoLookup == Lookup("none", "none", "None", NoTemplate, "None")

\* what the construction of objects has come to: instances made by
\* object.__new__, clients made by OpenAI(...), prompts files loaded
NoneMade == [instances |-> 0, clients |-> 0, loads |-> 0]
\* what a call of AIService() gave its caller: the exception raised, the
\* instance and the _client of the instance (0 for None)
Svc(exc, instance, client) == [exc |-> exc, instance |-> instance, client |-> client]
NoSvc == Svc("None", 0, 0)

Init ==
  /\ store = <<>>
  /\ now = 0
  /\ turns = 0
  /\ pc = [t \in Threads |-> "idle"]
  /\ req = [t \in Threads |-> NoRequest]
  /\ conv = [t \in Threads |-> NoConv]
  /\ fetched = [t \in Threads |-> NoConv]
  /\ reply = [t \in Threads |-> NoReply]
  /\ io = [t \in Threads |-> NoIo]
  /\ before = [t \in Threads |-> <<>>]
  /\ resp = [t \in Threads |-> NoResponse]
  /\ obj = NoConv
  /\ last = NoCall
  /\ ops = 0
  /\ out = <<>>
  /\ ai = NoService
  /\ lookup = NoLookup
  /\ cls_instance = 0
  /\ heap = <<>>
  /\ made = NoneMade
  /\ ipc = [t \in Threads |-> "out"]
  /\ self = [t \in Threads |-> 0]
  /\ svc = [t \in Threads |-> NoSvc]
  /\ uses = 0

\* a failure of the store during a call that reaches it
Fault(storeOk) == IF storeOk THEN 0 ELSE 1

\* datetime.utcnow(): the clock has advanced or not since its last reading
Clocks == {now, IF now < MaxTime THEN now + 1 ELSE now}

\* a request arrives at a free thread, its message and conversation_id of
\* the sets, while fewer than max turns were started
RequestOf(t, messages, ids, max) ==
  /\ pc[t] = "idle"
  /\ turns < max
  /\ \E m \in messages, id \in ids :
       req' = [req EXCEPT ![t] = [message |-> m, conversation_id |-> id]]
  /\ turns' = turns + 1
  /\ pc' = [pc EXCEPT ![t] = "received"]
  /\ conv' = [conv EXCEPT ![t] = NoConv]
  /\ fetched' = [fetched EXCEPT ![t] = NoConv]
  /\ reply' = [reply EXCEPT ![t] = NoReply]
  /\ io' = [io EXCEPT ![t] = NoIo]
  /\ before' = [before EXCEPT ![t] = store]
  /\ resp' = [resp EXCEPT ![t] = NoResponse]
  /\ UNCHANGED <<initVars, store, now, objVars, aiVars>>

Request(t) == RequestOf(t, RequestMessages, RequestIds, MaxTurns)

\* create_conversation, lines 28-30: a missing or blank message is refused
RejectMessage(t) ==
  /\ pc[t] = "received"
  /\ MessageMissing(req[t].message)
  /\ resp' = [resp EXCEPT ![t] =
       Response(400, "Message is required and cannot be empty", "None", NoBody)]
  /\ pc' = [pc EXCEPT ![t] = "done"]
  /\ UNCHANGED <<initVars, store, now, turns, req, conv, fetched, reply, io, before, objVars, aiVars>>

\* create_conversation, lines 36-38: no conversation_id, a conversation is
\* created and stored with the user message; the clock reads one of clocks
\* and the store answers as one of oks
CreatePathOf(t, clocks, oks) ==
  /\ pc[t] = "received"
  /\ ~MessageMissing(req[t].message)
  /\ req[t].conversation_id = NoneId
  /\ \E clock \in clocks, storeOk \in oks :
       \E r \in {service_create_conversation(store, req[t].message, clock, storeOk)} :
          /\ now' = clock
          /\ store' = r.store
          /\ io' = [io EXCEPT ![t].reads = @ + r.reads, ![t].writes = @ + r.writes,
                              ![t].faults = @ + Fault(storeOk)]
          /\ IF r.exc = "None"
               THEN /\ conv' = [conv EXCEPT ![t] = r.conv]
                    /\ pc' = [pc EXCEPT ![t] = "resolved"]
                    /\ UNCHANGED resp
               ELSE /\ resp' = [resp EXCEPT ![t] = ErrorResponse(r.exc)]
                    /\ pc' = [pc EXCEPT ![t] = "done"]
                    /\ UNCHANGED conv
  /\ UNCHANGED <<initVars, turns, req, fetched, reply, before, objVars, aiVars>>

CreatePath(t) == CreatePathOf(t, Clocks, BOOLEAN)

\* create_conversation, lines 39-41: the conversation is fetched and the
\* user message appended to the fetched object
ContinuePathOf(t, clocks, oks) ==
  /\ pc[t] = "received"
  /\ ~MessageMissing(req[t].message)
  /\ req[t].conversation_id # NoneId
  /\ \E clock \in clocks, storeOk \in oks :
       \E r \in {service_get_conversation(store, req[t].conversation_id,
                                         req[t].message, clock, storeOk)} :
          /\ now' = clock
          /\ io' = [io EXCEPT ![t].reads = @ + r.reads,
                              ![t].faults = @ + r.reads * Fault(storeOk)]
          /\ fetched' = [fetched EXCEPT ![t] = r.fetched]
          /\ IF r.exc = "None"
               THEN /\ conv' = [conv EXCEPT ![t] = r.conv]
                    /\ pc' = [pc EXCEPT ![t] = "resolved"]
                    /\ UNCHANGED resp
               ELSE /\ resp' = [resp EXCEPT ![t] = ErrorResponse(r.exc)]
                    /\ pc' = [pc EXCEPT ![t] = "done"]
                    /\ UNCHANGED conv
  /\ UNCHANGED <<initVars, store, turns, req, reply, before, objVars, aiVars>>

ContinuePath(t) == ContinuePathOf(t, Clocks, BOOLEAN)

\* create_conversation, lines 43-45: AIService() is made, with the prompts
\* file of the tests when it is the first, the model is asked and its
\* reply, one of replies, folded into the conversation object
GenerateOf(t, clocks, replies) ==
  /\ pc[t] = "resolved"
  /\ ai' = AIServiceNew(ai, TestCatalog)
  /\ \E clock \in clocks, rep \in replies :
       \E r \in {generate_debate_response(conv[t], ai'.prompts, rep, clock)} :
          /\ now' = clock
          /\ reply' = [reply EXCEPT ![t] = rep]
          /\ io' = [io EXCEPT ![t].calls = @ + r.calls]
          /\ conv' = [conv EXCEPT ![t] = r.conv]
          /\ IF r.exc = "None"
               THEN /\ pc' = [pc EXCEPT ![t] = "generated"]
                    /\ UNCHANGED resp
               ELSE /\ resp' = [resp EXCEPT ![t] = ErrorResponse(r.exc)]
                    /\ pc' = [pc EXCEPT ![t] = "done"]
  /\ UNCHANGED <<initVars, store, turns, req, fetched, before, objVars, lookup>>

Generate(t) == GenerateOf(t, Clocks, Replies)

\* create_conversation, lines 47-57: the conversation is saved and returned
SaveOf(t, clocks, oks) ==
  /\ pc[t] = "generated"
  /\ \E clock \in clocks, storeOk \in oks :
       \E r \in {service_save_conversation(store, conv[t], clock, storeOk)} :
          /\ now' = clock
          /\ store' = r.store
          /\ io' = [io EXCEPT ![t].writes = @ + r.writes,
                              ![t].faults = @ + Fault(storeOk)]
          /\ conv' = [conv EXCEPT ![t] = r.conv]
          /\ resp' = [resp EXCEPT ![t] =
               IF r.exc = "None" THEN Response(200, "", "None", Body(r.conv))
                                 ELSE ErrorResponse(r.exc)]
          /\ pc' = [pc EXCEPT ![t] = "done"]
  /\ UNCHANGED <<initVars, turns, req, fetched, reply, before, objVars, aiVars>>

Save(t) == SaveOf(t, Clocks, BOOLEAN)

\* the response is sent and the thread is free again
Finish(t) ==
  /\ pc[t] = "done"
  /\ pc' = [pc EXCEPT ![t] = "idle"]
  /\ req' = [req EXCEPT ![t] = NoRequest]
  /\ conv' = [conv EXCEPT ![t] = NoConv]
  /\ fetched' = [fetched EXCEPT ![t] = NoConv]
  /\ reply' = [reply EXCEPT ![t] = NoReply]
  /\ io' = [io EXCEPT ![t] = NoIo]
  /\ before' = [before EXCEPT ![t] = <<>>]
  /\ resp' = [resp EXCEPT ![t] = NoResponse]
  /\ UNCHANGED <<initVars, store, now, turns, objVars, aiVars>>

\* the turns are handled one at a time by one request thread
Workers == {"t1"}

Next ==
  \E t \in Workers :
    \/ Request(t)
    \/ RejectMessage(t)
    \/ CreatePath(t)
    \/ ContinuePath(t)
    \/ Generate(t)
    \/ Save(t)
    \/ Finish(t)

Spec == Init /\ [][Next]_vars

(***************************************************************************)
(* Turns handled by two request threads at once.  The handler takes no     *)
(* lock and the documents carry no version, so the steps of two turns      *)
(* interleave freely between the calls that reach the store.               *)
(***************************************************************************)
MaxRaceTurns == 3

RaceMessages == {Hello, Mind}
RaceIds == {NoneId, 1}
RaceReplies == {Reply("raise", FALSE, None, FALSE, None),
                Reply("object", TRUE, Dogs, TRUE, Pets)}

RaceClocks == {now}
RaceOks == {TRUE}

RaceRequest(t) == RequestOf(t, RaceMessages, RaceIds, MaxRaceTurns)
RaceCreatePath(t) == CreatePathOf(t, RaceClocks, RaceOks)
RaceContinuePath(t) == ContinuePathOf(t, RaceClocks, RaceOks)
RaceGenerate(t) == GenerateOf(t, RaceClocks, RaceReplies)
RaceSave(t) == SaveOf(t, RaceClocks, RaceOks)

NextRace ==
  \E t \in Threads :
    \/ RaceRequest(t)
    \/ RaceCreatePath(t)
    \/ RaceContinuePath(t)
    \/ RaceGenerate(t)
    \/ RaceSave(t)
    \/ Finish(t)

SpecRace == Init /\ [][NextRace]_vars

(***************************************************************************)
(* The Conversation object and the repository used directly, as the unit   *)
(* tests and the services use them.                                        *)
(***************************************************************************)
Roles == {"user", "bot", "system"}
Texts == {None, EmptyStr, Blank, Hello, LongText, TooLongText}
Topics == {None, PetsPadded, TooLongTopic}

\* conversation = Conversation(topic=topic)
ConvNew ==
  /\ ops < MaxOps
  /\ \E clock \in Clocks, topic \in Topics :
       /\ now' = clock
       /\ obj' = NewConversation(topic, clock)
       /\ last' = Call("new", "none", topic, clock, obj, store, "None", NoMessage)
  /\ ops' = ops + 1
  /\ out' = <<>>
  /\ UNCHANGED <<initVars, store, turnVars, aiVars>>

\* conversation.add_message(role, text) with a role and a text of the sets
AddMessageOf(roles, texts) ==
  /\ ops < MaxOps
  /\ obj # NoConv
  /\ \E clock \in Clocks, role \in roles, text \in texts :
       \E r \in {add_message(obj, role, text, clock)} :
          /\ now' = clock
          /\ obj' = r.conv
          /\ last' = Call("add_message", role, text, clock, obj, store, r.exc, r.ret)
  /\ ops' = ops + 1
  /\ out' = <<>>
  /\ UNCHANGED <<initVars, store, turnVars, aiVars>>

ConvAddMessage == AddMessageOf(Roles, Texts)

\* repository.save(conversation)
RepoSave ==
  /\ ops < MaxOps
  /\ obj # NoConv
  /\ \E clock \in Clocks, storeOk \in BOOLEAN :
       \E r \in {save(store, obj, clock, storeOk)} :
          /\ now' = clock
          /\ obj' = r.conv
          /\ store' = r.store
          /\ last' = Call(IF storeOk THEN "save" ELSE "save_fault", "none", None,
                          clock, obj, store, r.exc, NoMessage)
  /\ ops' = ops + 1
  /\ out' = <<>>
  /\ UNCHANGED <<initVars, turnVars, aiVars>>

\* conversation = repository.get_by_id(entity_id), when it finds a document
RepoGet ==
  /\ ops < MaxOps
  /\ \E entity_id \in 1..Len(store) :
       /\ obj' = get_by_id(store, entity_id, TRUE).conv
       /\ last' = Call("get_by_id", "none", None, now, obj, store, "None", NoMessage)
  /\ ops' = ops + 1
  /\ out' = <<>>
  /\ UNCHANGED <<initVars, store, now, turnVars, aiVars>>

\* conversation.get_last_user_message()
ConvLastUser ==
  /\ ops < MaxOps
  /\ obj # NoConv
  /\ last' = Call("get_last_user_message", "user", None, now, obj, store, "None",
                  get_last_user_message(obj))
  /\ ops' = ops + 1
  /\ out' = <<>>
  /\ UNCHANGED <<initVars, store, now, obj, turnVars, aiVars>>

\* conversation.get_last_bot_message()
ConvLastBot ==
  /\ ops < MaxOps
  /\ obj # NoConv
  /\ last' = Call("get_last_bot_message", "bot", None, now, obj, store, "None",
                  get_last_bot_message(obj))
  /\ ops' = ops + 1
  /\ out' = <<>>
  /\ UNCHANGED <<initVars, store, now, obj, turnVars, aiVars>>

\* conversation.to_conversation_string()
ConvToString ==
  /\ ops < MaxOps
  /\ obj # NoConv
  /\ last' = Call("to_conversation_string", "none", None, now, obj, store, "None",
                  NoMessage)
  /\ ops' = ops + 1
  /\ out' = to_conversation_string(obj)
  /\ UNCHANGED <<initVars, store, now, obj, turnVars, aiVars>>

NextConv ==
  \/ ConvNew
  \/ ConvAddMessage
  \/ RepoSave
  \/ RepoGet

SpecConv == Init /\ [][NextConv]_vars

(***************************************************************************)
(* The Conversation object read back: messages are added to it and the     *)
(* last message of a role and the conversation string are asked for.       *)
(***************************************************************************)
Said == {Hello, Mind, TwoLines}

\* conversation.add_message(role, text) with a role and a text it accepts
ConvSay == AddMessageOf(ROLE_CHOICES, Said)

NextRead ==
  \/ ConvNew
  \/ ConvSay
  \/ ConvLastUser
  \/ ConvLastBot
  \/ ConvToString

SpecRead == Init /\ [][NextRead]_vars

(***************************************************************************)
(* AIService and its prompt catalog used directly.                         *)
(***************************************************************************)
\* service = AIService(), whatever the prompts file holds; the file is
\* read only while _prompts is None
ServiceNew ==
  /\ \E file \in (IF ai.prompts.loaded THEN {NotLoaded} ELSE PromptFiles) :
       ai' = AIServiceNew(ai, file)
  /\ UNCHANGED <<initVars, store, now, turnVars, objVars, lookup>>

\* template = service.get_prompt_template(prompt_type, style), then
\* template.substitute(conversation=..., topic=...) as line 133 does
ServiceGetPromptTemplate ==
  /\ ai.instance
  /\ \E prompt_type \in AskedTypes, style \in AskedStyles :
       \E r \in {get_prompt_template(ai.prompts, prompt_type, style)} :
          lookup' = Lookup(prompt_type, style, r.exc, r.template,
                           IF r.exc = "None" THEN substitute_exc(r.template) ELSE "None")
  /\ UNCHANGED <<initVars, store, now, turnVars, objVars, ai>>

NextPrompt ==
  \/ ServiceNew
  \/ ServiceGetPromptTemplate

SpecPrompt == Init /\ [][NextPrompt]_vars

(***************************************************************************)
(* AIService() called by several request threads.  __new__ and __init__    *)
(* take no lock, so a thread can be suspended between any two of their     *)
(* statements; each action is one statement.  _client and _prompts are     *)
(* assigned through self, which makes them attributes of the instance; the *)
(* class attributes of these names stay None.                              *)
(***************************************************************************)
MaxUses == 3

\* what opening and yaml.safe_load of the prompts file come to
FileOutcomes == {"catalog", "empty", "unreadable"}

\* a request thread calls AIService()
Construct(t) ==
  /\ ipc[t] \in {"out", "ready", "raised"}
  /\ uses < MaxUses
  /\ uses' = uses + 1
  /\ ipc' = [ipc EXCEPT ![t] = "new"]
  /\ self' = [self EXCEPT ![t] = 0]
  /\ svc' = [svc EXCEPT ![t] = NoSvc]
  /\ UNCHANGED <<store, now, turnVars, objVars, aiVars, cls_instance, heap, made>>

\* __new__, line 24: if cls._instance is None
NewCheck(t) ==
  /\ ipc[t] = "new"
  /\ ipc' = [ipc EXCEPT ![t] = IF cls_instance = 0 THEN "make" ELSE "return"]
  /\ UNCHANGED <<store, now, turnVars, objVars, aiVars, cls_instance, heap, made,
                 self, svc, uses>>

\* __new__, line 25: cls._instance = super().__new__(cls)
NewMake(t) ==
  /\ ipc[t] = "make"
  /\ heap' = Append(heap, [client |-> 0, prompts |-> NotLoaded])
  /\ cls_instance' = Len(heap) + 1
  /\ made' = [made EXCEPT !.instances = @ + 1]
  /\ ipc' = [ipc EXCEPT ![t] = "return"]
  /\ UNCHANGED <<store, now, turnVars, objVars, aiVars, self, svc, uses>>

\* __new__, line 26: return cls._instance; __init__ is called on it
NewReturn(t) ==
  /\ ipc[t] = "return"
  /\ self' = [self EXCEPT ![t] = cls_instance]
  /\ ipc' = [ipc EXCEPT ![t] = "init"]
  /\ UNCHANGED <<store, now, turnVars, objVars, aiVars, cls_instance, heap, made,
                 svc, uses>>

\* __init__, line 30: if self._client is None
InitCheckClient(t) ==
  /\ ipc[t] = "init"
  /\ ipc' = [ipc EXCEPT ![t] = IF heap[self[t]].client = 0 THEN "client" ELSE "prompts"]
  /\ UNCHANGED <<store, now, turnVars, objVars, aiVars, cls_instance, heap, made,
                 self, svc, uses>>

\* __init__, lines 32-36: ValueError without an api key, else
\* self._client = OpenAI(api_key=api_key)
InitMakeClient(t) ==
  /\ ipc[t] = "client"
  /\ \E api_key \in BOOLEAN :
       IF api_key
         THEN /\ heap' = [heap EXCEPT ![self[t]].client = made.clients + 1]
              /\ made' = [made EXCEPT !.clients = @ + 1]
              /\ ipc' = [ipc EXCEPT ![t] = "prompts"]
              /\ UNCHANGED svc
         ELSE /\ svc' = [svc EXCEPT ![t] = Svc("ValueError", self[t], heap[self[t]].client)]
              /\ ipc' = [ipc EXCEPT ![t] = "raised"]
              /\ UNCHANGED <<heap, made>>
  /\ UNCHANGED <<store, now, turnVars, objVars, aiVars, cls_instance, self, uses>>

\* __init__, line 40: if self._prompts is None; when it is not, __init__
\* returns and the caller has its service
InitCheckPrompts(t) ==
  /\ ipc[t] = "prompts"
  /\ IF ~heap[self[t]].prompts.loaded
       THEN /\ ipc' = [ipc EXCEPT ![t] = "load"]
            /\ UNCHANGED svc
       ELSE /\ ipc' = [ipc EXCEPT ![t] = "ready"]
            /\ svc' = [svc EXCEPT ![t] = Svc("None", self[t], heap[self[t]].client)]
  /\ UNCHANGED <<store, now, turnVars, objVars, aiVars, cls_instance, heap, made,
                 self, uses>>

\* _load_prompts, lines 45-55: self._prompts = yaml.safe_load(f), BotError
\* when the file cannot be opened or parsed
InitLoadPrompts(t) ==
  /\ ipc[t] = "load"
  /\ \E file \in FileOutcomes :
       IF file = "unreadable"
         THEN /\ svc' = [svc EXCEPT ![t] = Svc("BotError", self[t], heap[self[t]].client)]
              /\ ipc' = [ipc EXCEPT ![t] = "raised"]
              /\ UNCHANGED <<heap, made>>
         ELSE /\ heap' = [heap EXCEPT ![self[t]].prompts =
                            IF file = "catalog" THEN TestCatalog ELSE NotLoaded]
              /\ made' = [made EXCEPT !.loads = @ + 1]
              /\ svc' = [svc EXCEPT ![t] = Svc("None", self[t], heap[self[t]].client)]
              /\ ipc' = [ipc EXCEPT ![t] = "ready"]
  /\ UNCHANGED <<store, now, turnVars, objVars, aiVars, cls_instance, self, uses>>

NextInit ==
  \E t \in Threads :
    \/ Construct(t)
    \/ NewCheck(t)
    \/ NewMake(t)
    \/ NewReturn(t)
    \/ InitCheckClient(t)
    \/ InitMakeClient(t)
    \/ InitCheckPrompts(t)
    \/ InitLoadPrompts(t)

SpecInit == Init /\ [][NextInit]_vars

(***************************************************************************)
(* Properties of a turn.                                                   *)
(***************************************************************************)
\* the turn of thread t has ended
Done(t) == pc[t] = "done"

\* role and text of the messages of a conversation, in their order
RoleText(messages) ==
  [i \in 1..Len(messages) |-> [role |-> messages[i].role, text |-> messages[i].text]]

\* a text add_message is meant to take: trimmed non-empty, at most the maximum
TextFits(text) ==
  /\ text # None
  /\ Len_(Strip(text)) >= 1
  /\ Len_(Strip(text)) <= MAX_TEXT_LENGTH

\* number of bot messages of a stored conversation
RECURSIVE BotCount(_)
BotCount(messages) ==
  IF messages = <<>> THEN 0
  ELSE (IF messages[Len(messages)].role = "bot" THEN 1 ELSE 0)
         + BotCount(SubSeq(messages, 1, Len(messages) - 1))

\* a turn without conversation_id whose message fits, whose reply is an
\* object with a text that fits and a non-empty topic, and during which the
\* store did not fail
CreateTurnWithTopic(t) ==
  /\ Done(t)
  /\ req[t].conversation_id = NoneId
  /\ TextFits(req[t].message)
  /\ reply[t].kind = "object"
  /\ reply[t].hasText /\ TextFits(reply[t].text)
  /\ reply[t].hasTopic /\ Truthy(reply[t].topic)
  /\ io[t].faults = 0

\* the turn succeeded and stored user and bot message and topic as given
StoredAs(t, message, text, topic) ==
  /\ resp[t].status = 200
  /\ conv[t].id \in 1..Len(store)
  /\ RoleText(store[conv[t].id].messages) =
       << [role |-> "user", text |-> message], [role |-> "bot", text |-> text] >>
  /\ store[conv[t].id].topic = topic
  /\ resp[t].body = Body(FromMongo(conv[t].id, store[conv[t].id]))

\* C1 as the claim states it: a create turn whose reply has a non-empty
\* topic T and a valid text X ends with the persisted messages
\* [user: message, bot: X] and the topic T, and returns what is persisted.
C1_AsStated ==
  \A t \in Threads :
    CreateTurnWithTopic(t) =>
      StoredAs(t, req[t].message, reply[t].text, reply[t].topic)

\* C1 (amended): a create turn whose reply has a topic T that is non-empty
\* and, trimmed, at most MAX_TOPIC_LENGTH long, and a valid text X, ends
\* with the persisted messages [user: trimmed message, bot: trimmed X] and
\* the trimmed T as topic, and the conversation returned equals the
\* persisted one.
C1_CreateTurnPersistsTrimmed ==
  \A t \in Threads :
    (CreateTurnWithTopic(t) /\ Len_(Strip(reply[t].topic)) <= MAX_TOPIC_LENGTH) =>
      StoredAs(t, Strip(req[t].message), Strip(reply[t].text), Strip(reply[t].topic))

C1_Witness ==
  \E t \in Threads :
    /\ CreateTurnWithTopic(t)
    /\ req[t].message = Mind
    /\ reply[t].text = DogsPadded
    /\ reply[t].topic = PetsPadded
    /\ resp[t].status = 200
    /\ Len(store[conv[t].id].messages) = 2

\* C2: a successful turn on a stored conversation of n messages leaves n+2
\* messages, the user message at n+1 and the bot message at n+2, the first
\* n unchanged in role, text and order, in the conversation returned and in
\* the persisted one.
C2_ContinueTurnAppendsTwo ==
  \A t \in Threads :
    (Done(t) /\ fetched[t] # NoConv /\ resp[t].status = 200) =>
      LET n == Len(fetched[t].messages)
          expected == RoleText(fetched[t].messages) \o
                        << [role |-> "user", text |-> Strip(req[t].message)],
                           [role |-> "bot", text |-> Strip(reply[t].text)] >>
      IN /\ n >= 1
         /\ resp[t].body.messages = expected
         /\ RoleText(conv[t].messages) = expected
         /\ RoleText(store[fetched[t].id].messages) = expected

C2_Witness ==
  \E t \in Threads :
    /\ Done(t) /\ fetched[t] # NoConv /\ resp[t].status = 200
    /\ Len(fetched[t].messages) = 2
    /\ Len(store[fetched[t].id].messages) = 4
    /\ fetched[t].messages[1].text # Strip(req[t].message)

\* C3: a turn that names a well-formed conversation_id absent from the
\* store fails with ConversationNotFoundError, writes nothing to the store
\* and never calls the model.
C3_UnknownIdNotFound ==
  \A t \in Threads :
    (/\ Done(t)
     /\ ~MessageMissing(req[t].message)
     /\ ObjectIdIsValid(req[t].conversation_id)
     /\ req[t].conversation_id \notin 1..Len(before[t])
     /\ io[t].faults = 0) =>
      /\ resp[t].exc = "ConversationNotFoundError"
      /\ resp[t].status = 404
      /\ store = before[t]
      /\ io[t].writes = 0
      /\ io[t].calls = 0

C3_Witness ==
  \E t \in Threads :
    /\ Done(t)
    /\ req[t].message = Hello
    /\ req[t].conversation_id = 2
    /\ Len(store) = 1
    /\ io[t].reads = 1
    /\ resp[t].status = 404

\* C4: when the model call fails the turn fails with OpenAIError and no
\* stored conversation has gained a bot message: each has as many bot
\* messages as before the turn.
C4_GenerationFailureStoresNoBotMessage ==
  \A t \in Threads :
    (Done(t) /\ reply[t].kind \in {"raise", "empty"}) =>
      /\ resp[t].exc = "OpenAIError"
      /\ \A id \in 1..Len(store) :
           BotCount(store[id].messages) =
             IF id \in 1..Len(before[t]) THEN BotCount(before[t][id].messages) ELSE 0

C4_Witness ==
  \E t \in Threads :
    /\ Done(t)
    /\ reply[t].kind = "raise"
    /\ fetched[t] # NoConv
    /\ BotCount(fetched[t].messages) = 1
    /\ Len(conv[t].messages) = 3

\* C5: a turn whose message is missing, empty or blank is refused with the
\* 400 validation response before the store or the model is touched, with
\* or without conversation_id.
C5_BlankMessageRefusedFirst ==
  \A t \in Threads :
    (Done(t) /\ (req[t].message = None \/ ~Truthy(Strip(req[t].message)))) =>
      /\ resp[t].status = 400
      /\ resp[t].error = "Message is required and cannot be empty"
      /\ io[t] = NoIo
      /\ conv[t] = NoConv
      /\ store = before[t]

C5_Witness ==
  \E t \in Threads :
    /\ Done(t)
    /\ req[t].message = Blank
    /\ req[t].conversation_id = 1
    /\ Len(store) = 1
    /\ resp[t].status = 400

(***************************************************************************)
(* Properties of the Conversation object and the repository.               *)
(***************************************************************************)
\* the last call was add_message with a role of ROLE_CHOICES and a text
\* that fits
AddedValid ==
  /\ last.op = "add_message"
  /\ last.role \in ROLE_CHOICES
  /\ TextFits(last.text)

\* the last call appended exactly one Message with the role and the trimmed
\* text given, and returned it
AppendedOne ==
  /\ last.exc = "None"
  /\ obj.messages = Append(last.pre.messages, last.ret)
  /\ last.ret.role = last.role
  /\ last.ret.text = Strip(last.text)

C7_AddMessageRejectsBadText ==
  (/\ last.op = "add_message"
   /\ last.role \in ROLE_CHOICES
   /\ last.text # None
   /\ (~Truthy(Strip(last.text)) \/ Len_(Strip(last.text)) > MAX_TEXT_LENGTH)) =>
    /\ last.exc = "ValidationError"
    /\ Len(obj.messages) = Len(last.pre.messages)

\* C8: add_message with a role outside ROLE_CHOICES fails with
\* ValidationError and leaves messages and updated_at unchanged.
C8_AddMessageRejectsBadRole ==
  (last.op = "add_message" /\ last.role \notin ROLE_CHOICES) =>
    /\ last.exc = "ValidationError"
    /\ obj.messages = last.pre.messages
    /\ obj.updated_at = last.pre.updated_at

C8_Witness ==
  /\ last.op = "add_message"
  /\ last.role = "system"
  /\ last.text = Hello
  /\ last.clock > last.pre.updated_at
  /\ Len(obj.messages) = 1
  /\ last.exc = "ValidationError"

\* a Message that may exist: role of ROLE_CHOICES, text of 1 to
\* MAX_TEXT_LENGTH characters
MessageWellFormed(m) ==
  /\ m.role \in ROLE_CHOICES
  /\ m.text # None
  /\ Len_(m.text) >= 1
  /\ Len_(m.text) <= MAX_TEXT_LENGTH

\* C9: no Message with a role outside ROLE_CHOICES or with an empty or
\* oversized text exists in any conversation, neither in the conversation
\* object of a turn nor in the store.
C9_NoMalformedMessageAnywhere ==
  /\ \A t \in Threads : \A i \in 1..Len(conv[t].messages) :
       MessageWellFormed(conv[t].messages[i])
  /\ \A id \in 1..Len(store) : \A i \in 1..Len(store[id].messages) :
       MessageWellFormed(store[id].messages[i])

\* a conversation that passes validation: at least one message, every
\* message well formed once trimmed, topic and viewpoint at most
\* MAX_TOPIC_LENGTH long once trimmed
ConversationWellFormed(c) ==
  /\ c.messages # <<>>
  /\ \A i \in 1..Len(c.messages) :
       MessageWellFormed([c.messages[i] EXCEPT !.text = IF @ = None THEN @ ELSE Strip(@)])
  /\ c.topic # None => Len_(Strip(c.topic)) <= MAX_TOPIC_LENGTH
  /\ c.viewpoint # None => Len_(Strip(c.viewpoint)) <= MAX_TOPIC_LENGTH

\* C10: MongoRepository.save writes only a conversation that passes
\* validation; when validation fails it raises RepositoryError and the
\* store is as before; so no stored conversation has an empty message list.
C10_SaveWritesOnlyValidated ==
  /\ \A id \in 1..Len(store) : store[id].messages # <<>>
  /\ last.op \in {"save", "save_fault"} =>
       /\ store # last.preStore => ConversationWellFormed(last.pre)
       /\ ~ConversationWellFormed(last.pre) =>
            (last.exc = "RepositoryError" /\ store = last.preStore)
       /\ (last.op = "save" /\ ConversationWellFormed(last.pre)) =>
            (last.exc = "None" /\ obj.id \in 1..Len(store))

C10_Witness ==
  /\ last.op = "save"
  /\ last.pre.messages = <<>>
  /\ last.exc = "RepositoryError"
  /\ last.pre.topic = PetsPadded
  /\ obj.topic = Pets
  /\ store = last.preStore

(***************************************************************************)
(* Properties of the message list and the time stamps over the steps of    *)
(* the turns.                                                              *)
(***************************************************************************)
\* s is a prefix of t
IsPrefix(s, t) == Len(s) <= Len(t) /\ SubSeq(t, 1, Len(s)) = s

\* the step ends the turn of thread t and drops its conversation object
Released(t) == pc'[t] = "idle"

\* C11: over every step of a turn (fetch and add_message of the user
\* message, folding of the bot reply, save) the message list before the
\* step is a prefix of the message list after it, in the conversation
\* object of the turn and in every stored conversation: the earlier
\* messages keep their place, role, text and timestamp.
C11_MessagesOnlyAppended ==
  [][ /\ \A id \in 1..Len(store) :
           /\ id \in 1..Len(store')
           /\ IsPrefix(store[id].messages, store'[id].messages)
      /\ \A t \in Threads :
           /\ ~Released(t) => IsPrefix(conv[t].messages, conv'[t].messages)
           /\ (fetched[t] = NoConv /\ fetched'[t] # NoConv) =>
                /\ fetched'[t].messages = store[fetched'[t].id].messages
                /\ IsPrefix(fetched'[t].messages, conv'[t].messages)
                /\ Len(conv'[t].messages) = Len(fetched'[t].messages) + 1 ]_vars

C11_Witness ==
  \E t \in Threads :
    /\ pc[t] = "done"
    /\ resp[t].status = 200
    /\ Len(fetched[t].messages) = 2
    /\ Len(conv[t].messages) = 4
    /\ conv[t].messages[1].text = conv[t].messages[3].text
    /\ conv[t].messages[3].timestamp > conv[t].messages[1].timestamp
    /\ IsPrefix(before[t][fetched[t].id].messages, store[fetched[t].id].messages)
    /\ Len(store[fetched[t].id].messages) = 4

\* C12: after every step of a turn (creation, add_message, folding of the
\* bot reply, clean and save) updated_at >= created_at holds of the
\* conversation object of the turn and of every stored conversation, and
\* no step decreases updated_at: not of the object while the turn holds
\* it, not of the object against the document it was loaded from, and not
\* of a stored conversation, whose created_at stays as it is.
C12_UpdatedAtNeverBehind ==
  [][ /\ \A id \in 1..Len(store') :
           store'[id].updated_at >= store'[id].created_at
      /\ \A id \in 1..Len(store) :
           /\ store'[id].updated_at >= store[id].updated_at
           /\ store'[id].created_at = store[id].created_at
      /\ \A t \in Threads :
           /\ conv'[t].updated_at >= conv'[t].created_at
           /\ ~Released(t) =>
                /\ conv'[t].updated_at >= conv[t].updated_at
                /\ conv[t] # NoConv => conv'[t].created_at = conv[t].created_at
           /\ (fetched[t] = NoConv /\ fetched'[t] # NoConv) =>
                /\ conv'[t].updated_at >= fetched'[t].updated_at
                /\ conv'[t].created_at = fetched'[t].created_at ]_vars

C12_Witness ==
  \E t \in Threads :
    /\ pc[t] = "done"
    /\ resp[t].status = 200
    /\ fetched[t] # NoConv
    /\ conv[t].updated_at > conv[t].created_at
    /\ conv[t].updated_at > fetched[t].updated_at
    /\ store[conv[t].id].updated_at > before[t][conv[t].id].updated_at
    /\ store[conv[t].id].updated_at < conv[t].updated_at

(***************************************************************************)
(* Properties of the reading methods of Conversation.                      *)
(***************************************************************************)
\* the line breaks in a string given by its parts
RECURSIVE SumLF(_)
SumLF(parts) ==
  IF parts = <<>> THEN 0 ELSE CountLF(Head(parts)) + SumLF(Tail(parts))

\* the number of lines of a string given by its parts
LineCount(parts) == IF parts = <<>> THEN 0 ELSE 1 + SumLF(parts)

\* the parts of a string between the newlines that join them
RECURSIVE Entries(_)
Entries(parts) ==
  IF parts = <<>> THEN <<>>
  ELSE IF \E k \in 1..Len(parts) : parts[k] = NewLine
    THEN LET k == CHOOSE k \in 1..Len(parts) :
                    /\ parts[k] = NewLine
                    /\ \A j \in 1..(k - 1) : parts[j] # NewLine
         IN <<SubSeq(parts, 1, k - 1)>> \o Entries(SubSeq(parts, k + 1, Len(parts)))
    ELSE <<parts>>

\* the string has one entry "<role>: <text>" per message, in their order
OneEntryPerMessage ==
  /\ Len(Entries(out)) = Len(obj.messages)
  /\ \A i \in 1..Len(obj.messages) :
       Entries(out)[i] =
         << RoleStr(obj.messages[i].role), ColonSpace, obj.messages[i].text >>

\* the line breaks inside the texts of the messages
RECURSIVE TextLF(_)
TextLF(messages) ==
  IF messages = <<>> THEN 0 ELSE CountLF(Head(messages).text) + TextLF(Tail(messages))

\* C13 as the claim states it: to_conversation_string returns one line
\* "<role>: <text>" per message, in insertion order, and leaves the
\* conversation as it was.
C13_AsStated ==
  last.op = "to_conversation_string" =>
    /\ OneEntryPerMessage
    /\ LineCount(out) = Len(obj.messages)
    /\ obj = last.pre

\* C13 (amended): to_conversation_string returns the entries
\* "<role>: <text>" of the messages in insertion order, joined by single
\* newlines, none dropped or shortened; a text is put in as it is, so the
\* string has as many lines as there are messages plus line breaks inside
\* their texts; the conversation and the store are left as they were.
C13_TranscriptEntriesInOrder ==
  last.op = "to_conversation_string" =>
    /\ OneEntryPerMessage
    /\ LineCount(out) = Len(obj.messages) + TextLF(obj.messages)
    /\ obj = last.pre
    /\ store = last.preStore

C13_Witness ==
  /\ last.op = "to_conversation_string"
  /\ Len(obj.messages) = 2
  /\ obj.messages[1].role = "user" /\ obj.messages[1].text = TwoLines
  /\ obj.messages[2].role = "bot" /\ obj.messages[2].text = Strip(Mind)
  /\ LineCount(out) = 3
  /\ Len(out) = 7

\* the places of the messages of a role in a message list
PlacesOf(messages, role) == {i \in 1..Len(messages) : messages[i].role = role}

\* C14: get_last_user_message / get_last_bot_message return the message of
\* that role at the greatest index of messages, return None exactly when
\* there is no message of that role, and leave the conversation and the
\* store as they were.
C14_LastMessageOfRole ==
  last.op \in {"get_last_user_message", "get_last_bot_message"} =>
    /\ last.role = (IF last.op = "get_last_user_message" THEN "user" ELSE "bot")
    /\ (last.ret = NoMessage) <=> (PlacesOf(obj.messages, last.role) = {})
    /\ \A i \in PlacesOf(obj.messages, last.role) :
         (\A j \in PlacesOf(obj.messages, last.role) : j <= i) =>
           last.ret = obj.messages[i]
    /\ obj = last.pre
    /\ store = last.preStore

C14_Witness ==
  /\ last.op = "get_last_user_message"
  /\ PlacesOf(obj.messages, "user") = {1, 2}
  /\ obj.messages[1].text = TwoLines
  /\ obj.messages[2].text = Hello
  /\ last.ret = obj.messages[2]
  /\ last.ret # obj.messages[1]

\* get_last_bot_message on a conversation without a bot message
C14_WitnessNone ==
  /\ last.op = "get_last_bot_message"
  /\ Len(obj.messages) = 2
  /\ last.ret = NoMessage

(***************************************************************************)
(* Properties of the prompt catalog.                                       *)
(***************************************************************************)
\* get_prompt_template has been called
LookedUp == lookup.prompt_type # "none"

\* C15: for every catalog loaded and every (prompt_type, style), known or
\* not, get_prompt_template does not fail and returns a template that is
\* not empty, and substitute with conversation and topic succeeds on it.
C15_TemplateLookupNeverFails ==
  LookedUp =>
    /\ lookup.exc = "None"
    /\ lookup.template # NoTemplate
    /\ Len_(lookup.template.text) > 0
    /\ lookup.render = "None"

\* C16: get_prompt_template returns the (type, style) entry when the
\* catalog has it; otherwise the (type, "default") entry of the same type
\* when the catalog has that; otherwise it still returns a template, the
\* built-in one.
C16_FallbackOrder ==
  (LookedUp /\ ai.prompts.loaded) =>
    /\ lookup.exc = "None"
    /\ lookup.template # NoTemplate
    /\ ~Missing(ai.prompts, lookup.prompt_type, lookup.style) =>
         lookup.template = ai.prompts.entries[<<lookup.prompt_type, lookup.style>>]
    /\ (/\ Missing(ai.prompts, lookup.prompt_type, lookup.style)
        /\ ~Missing(ai.prompts, lookup.prompt_type, "default")) =>
         lookup.template = ai.prompts.entries[<<lookup.prompt_type, "default">>]

(***************************************************************************)
(* Properties of generate_debate_response within a turn.                   *)
(***************************************************************************)
\* the step is the call of generate_debate_response in the turn of thread t
Generating(t) == pc[t] = "resolved" /\ pc'[t] # "resolved"

\* C17: when the reply is a JSON object without a text field,
\* generate_debate_response fails with ResponseParsingError, whatever else
\* the object holds; the conversation object keeps its messages and its
\* topic, and nothing is stored.
C17_MissingTextIsFormatError ==
  [][ \A t \in Threads :
        (Generating(t) /\ reply'[t].kind = "object" /\ ~reply'[t].hasText) =>
          /\ pc'[t] = "done"
          /\ resp'[t].exc = "ResponseParsingError"
          /\ conv'[t] = conv[t]
          /\ store' = store ]_vars

C17_Witness ==
  \E t \in Threads :
    /\ Done(t)
    /\ reply[t].kind = "object" /\ ~reply[t].hasText
    /\ reply[t].hasTopic /\ reply[t].topic = Pets
    /\ resp[t].exc = "ResponseParsingError"
    /\ fetched[t] # NoConv
    /\ Len(conv[t].messages) = 3
    /\ BotCount(conv[t].messages) = 1
    /\ conv[t].topic = fetched[t].topic

\* C18: when the call of the model raises or its completion is empty or
\* null, generate_debate_response fails with OpenAIError, not with
\* ResponseParsingError, after the one call; the conversation object and
\* the store stay as they were.
C18_ProviderFailureIsOpenAIError ==
  [][ \A t \in Threads :
        (Generating(t) /\ reply'[t].kind \in {"raise", "empty"}) =>
          /\ pc'[t] = "done"
          /\ resp'[t].exc = "OpenAIError"
          /\ resp'[t].exc # "ResponseParsingError"
          /\ io'[t].calls = io[t].calls + 1
          /\ conv'[t] = conv[t]
          /\ store' = store ]_vars

C18_Witness ==
  \E t \in Threads :
    /\ Done(t)
    /\ reply[t].kind = "empty"
    /\ resp[t].exc = "OpenAIError"
    /\ io[t].calls = 1
    /\ req[t].conversation_id = NoneId
    /\ Len(conv[t].messages) = 1

\* C19: a turn whose model output is not empty and is no JSON object (no
\* JSON at all, or a JSON number, string or array) fails with
\* ResponseParsingError.
C19_MalformedReplyIsFormatError ==
  \A t \in Threads :
    (Done(t) /\ reply[t].kind \in {"notjson", "scalar", "string", "array"}) =>
      resp[t].exc = "ResponseParsingError"

\* C20: when generate_debate_response succeeds, the topic of the
\* conversation is the topic of the reply if the reply has a topic field
\* that is neither null nor the empty string, and otherwise the topic the
\* conversation had before the call.
C20_TopicOverwrittenWhenGiven ==
  [][ \A t \in Threads :
        (Generating(t) /\ pc'[t] = "generated") =>
          conv'[t].topic =
            IF reply'[t].hasTopic /\ reply'[t].topic \notin {None, EmptyStr}
              THEN reply'[t].topic
              ELSE conv[t].topic ]_vars

C20_Witness ==
  \E t \in Threads :
    /\ pc[t] = "generated"
    /\ fetched[t] # NoConv
    /\ fetched[t].topic = Pets
    /\ reply[t].hasTopic /\ reply[t].topic = EmptyStr
    /\ conv[t].topic = Pets
    /\ Len(conv[t].messages) = 4

\* a successful call with a topic in the reply that replaces another one
C20_WitnessOverwritten ==
  \E t \in Threads :
    /\ pc[t] = "generated"
    /\ fetched[t] # NoConv
    /\ fetched[t].topic = Pets
    /\ reply[t].topic = LongTopic
    /\ conv[t].topic = LongTopic

(***************************************************************************)
(* Properties of AIService() under concurrent first use.                   *)
(***************************************************************************)
\* thread t has its service: AIService() returned to it
Ready(t) == ipc[t] = "ready"

\* C21: when several request threads use AIService() for the first time at
\* once, one instance and one OpenAI client are constructed, and every
\* thread that gets its service gets that instance with that client.
C21_SingleWinningInitializer ==
  /\ made.instances <= 1
  /\ made.clients <= 1
  /\ \A t \in Threads : Ready(t) => svc[t].client # 0
  /\ \A t, u \in Threads :
       Ready(t) /\ Ready(u) =>
         /\ svc[t].instance = svc[u].instance
         /\ svc[t].client = svc[u].client

(***************************************************************************)
(* Properties of two turns on one conversation at once.                    *)
(***************************************************************************)
\* the turn of thread t saves its conversation and answers 200
Saves(t) == pc[t] = "generated" /\ pc'[t] = "done" /\ resp'[t].status = 200

\* C22: the save of a turn writes the whole message list of its own
\* conversation object, with no lock or version check: after a continue
\* turn has saved, the stored messages are the ones this turn fetched
\* followed by its user message and its bot reply, whatever another turn
\* has saved to the same conversation in between (the last write wins).
C22_LastWriteWins ==
  [][\A t \in Threads :
       Saves(t) /\ fetched[t] # NoConv =>
         /\ Len(store'[conv[t].id].messages) = Len(fetched[t].messages) + 2
         /\ IsPrefix(fetched[t].messages, store'[conv[t].id].messages)
         /\ store'[conv[t].id].messages[Len(fetched[t].messages) + 1].text
              = Strip(req[t].message)
         /\ store'[conv[t].id].messages[Len(fetched[t].messages) + 2].role = "bot"]_vars

\* two turns on conversation 1 have both answered 200, and the user
\* message of one of them is not in the stored conversation
C22_Witness ==
  \E t, u \in Threads :
    /\ t # u
    /\ pc[t] = "done" /\ resp[t].status = 200 /\ fetched[t] # NoConv
    /\ pc[u] = "done" /\ resp[u].status = 200 /\ fetched[u] # NoConv
    /\ conv[t].id = 1 /\ conv[u].id = 1
    /\ req[t].message # req[u].message
    /\ Len(store[1].messages) = 3
    /\ store[1].messages[2].text = Strip(req[t].message)
    /\ \A i \in 1..Len(store[1].messages) :
         store[1].messages[i].text # Strip(req[u].message)
    /\ \E i \in 1..Len(resp[u].body.messages) :
         resp[u].body.messages[i].text = Strip(req[u].message)

(***************************************************************************)
(* Properties of the error responses.                                      *)
(***************************************************************************)
\* C23: a turn that ends with an OpenAIError answers 503 "AI service
\* temporarily unavailable", one that ends with a ResponseParsingError
\* answers 500 "Invalid AI response format"; neither answers the generic
\* "Failed to generate response".
C23_GenerationErrorsDifferentiated ==
  \A t \in Threads :
    Done(t) =>
      /\ resp[t].exc = "OpenAIError" =>
           /\ resp[t].status = 503
           /\ resp[t].error = "AI service temporarily unavailable"
      /\ resp[t].exc = "ResponseParsingError" =>
           /\ resp[t].status = 500
           /\ resp[t].error = "Invalid AI response format"

(***************************************************************************)
(* Properties of the services.                                             *)
(***************************************************************************)
\* the turn of thread t calls ConversationService.create_conversation
Creating(t) ==
  /\ pc[t] = "received" /\ pc'[t] # "received"
  /\ req[t].conversation_id = NoneId
  /\ ~MessageMissing(req[t].message)
\* the turn of thread t calls ConversationService.save_conversation
Saving(t) == pc[t] = "generated" /\ pc'[t] # "generated"
\* the store did not fail during the step of thread t
StoreOk(t) == io'[t].faults = io[t].faults
\* the step of thread t ends its turn with ValidationError and writes nothing
FailsUnwritten(t) ==
  /\ resp'[t].exc = "ValidationError"
  /\ resp'[t].status = 400
  /\ store' = store
  /\ io'[t].writes = io[t].writes

\* C24: when the repository raises RepositoryError in create_conversation
\* or in save, for a validation failure or a failure of the store, the
\* service raises ValidationError and the store is as it was before the
\* call.
C24_RepositoryErrorIsValidationError ==
  [][\A t \in Threads :
       /\ ( /\ Creating(t)
            /\ repository_create_conversation(store, None, req[t].message, now',
                                              StoreOk(t)).exc = "RepositoryError" )
            => FailsUnwritten(t)
       /\ ( /\ Saving(t)
            /\ save(store, conv[t], now', StoreOk(t)).exc = "RepositoryError" )
            => FailsUnwritten(t)]_vars

\* a turn whose save failed on validation: the bot text is too long
C24_Witness ==
  \E t \in Threads :
    /\ Done(t)
    /\ resp[t].exc = "ValidationError"
    /\ reply[t].text = TooLongText
    /\ io[t].faults = 0
    /\ fetched[t] # NoConv
    /\ store = before[t]

\* a turn whose create failed because the store failed
C24_WitnessStoreFailure ==
  \E t \in Threads :
    /\ Done(t)
    /\ resp[t].exc = "ValidationError"
    /\ req[t].conversation_id = NoneId
    /\ io[t].faults = 1
    /\ reply[t] = NoReply
    /\ store = before[t]

\* C25: get_conversation with an empty conversation id or one that is no
\* ObjectId raises ValueError (answered 400) before the store is read:
\* the turn reads and writes nothing, has no conversation object to append
\* a message to, and leaves the store as it was.
C25_BadIdRefusedBeforeStore ==
  \A t \in Threads :
    ( /\ Done(t)
      /\ ~MessageMissing(req[t].message)
      /\ req[t].conversation_id \in {EmptyId, MalformedId} )
    => /\ resp[t].exc = "ValueError"
       /\ resp[t].status = 400
       /\ io[t].reads = 0
       /\ io[t].writes = 0
       /\ io[t].calls = 0
       /\ conv[t] = NoConv
       /\ fetched[t] = NoConv
       /\ store = before[t]

\* a turn with a malformed id was refused while the store holds a
\* conversation
C25_Witness ==
  \E t \in Threads :
    /\ Done(t)
    /\ req[t].conversation_id = MalformedId
    /\ req[t].message = Hello
    /\ resp[t].exc = "ValueError"
    /\ Len(store) = 1

(***************************************************************************)
(* Properties of the generation step of a turn.                            *)
(***************************************************************************)
\* the exceptions generate_debate_response ends with after it called the model
GenerationErrors == {"OpenAIError", "ResponseParsingError", "BotError"}

\* C26: a turn calls the model at most once, whatever the call comes to,
\* and a call has one outcome: either the reply is an object with a text,
\* which is appended as the one bot message of the turn, or the turn ends
\* with one generation error and no bot message.
C26_ModelCalledAtMostOnce ==
  \A t \in Threads :
    /\ io[t].calls <= 1
    /\ io[t].calls = 1 =>
         \/ /\ pc[t] = "generated" \/ (Done(t) /\ resp[t].exc \in {"None", "ValidationError"})
            /\ reply[t].kind = "object" /\ reply[t].hasText
            /\ BotCount(conv[t].messages) = BotCount(fetched[t].messages) + 1
            /\ conv[t].messages[Len(conv[t].messages)].text = Strip(reply[t].text)
         \/ /\ Done(t) /\ resp[t].exc \in GenerationErrors
            /\ BotCount(conv[t].messages) = BotCount(fetched[t].messages)

\* a turn whose call of the model failed and was not repeated
C26_Witness ==
  \E t \in Threads :
    /\ Done(t)
    /\ reply[t].kind = "raise"
    /\ resp[t].exc = "OpenAIError"
    /\ io[t].calls = 1
    /\ fetched[t] # NoConv

\* C27: when generate_debate_response fails, for whatever reason, the
\* conversation object it was given has the topic and the messages it had
\* before the call.
C27_FailedGenerationLeavesConversation ==
  [][\A t \in Threads :
       Generating(t) /\ pc'[t] = "done" =>
         /\ conv'[t].topic = conv[t].topic
         /\ conv'[t].messages = conv[t].messages]_vars

\* the turn of thread t called the model and generation failed
GenerationFailed(t) ==
  Done(t) /\ reply[t] # NoReply /\ resp[t].exc \in GenerationErrors
\* the store is as it was when the turn of thread t began, with one more
\* conversation that holds the user message of the turn and nothing else
SeedStored(t) ==
  /\ Len(store) = Len(before[t]) + 1
  /\ SubSeq(store, 1, Len(before[t])) = before[t]
  /\ RoleText(store[Len(store)].messages)
       = <<[role |-> "user", text |-> Strip(req[t].message)]>>

\* C28: on the create path the conversation with the user message alone
\* is in the store before generation is attempted and is still there when
\* generation has failed; on the continue path the user message is in the
\* conversation object only, and when generation has failed the store is
\* as it was before the turn.
C28_FailedTurnUserMessage ==
  \A t \in Threads :
    /\ pc[t] = "resolved" /\ req[t].conversation_id = NoneId => SeedStored(t)
    /\ pc[t] = "resolved" /\ req[t].conversation_id # NoneId =>
         /\ store = before[t]
         /\ Len(conv[t].messages) = Len(store[conv[t].id].messages) + 1
    /\ GenerationFailed(t) /\ req[t].conversation_id = NoneId => SeedStored(t)
    /\ GenerationFailed(t) /\ req[t].conversation_id # NoneId => store = before[t]

\* generation has failed in a turn on the create path
C28_Witness ==
  \E t \in Threads :
    /\ GenerationFailed(t)
    /\ req[t].conversation_id = NoneId
    /\ before[t] # <<>>
    /\ Len(store) = 2

\* generation has failed in a turn on the continue path
C28_WitnessContinue ==
  \E t \in Threads :
    /\ GenerationFailed(t)
    /\ req[t].conversation_id = 1
    /\ Len(conv[t].messages) = 2
    /\ Len(store[1].messages) = 1

(***************************************************************************)
(* Properties of the stored conversations.                                 *)
(***************************************************************************)
\* a stored conversation within the bounds of the models
StoredWithinBounds(d) ==
  /\ d.messages # <<>>
  /\ d.messages[1].role = "user"
  /\ \A i \in 1..Len(d.messages) :
       /\ d.messages[i].role \in ROLE_CHOICES
       /\ d.messages[i].text # None
       /\ d.messages[i].text = Strip(d.messages[i].text)
       /\ Len_(d.messages[i].text) >= 1
       /\ Len_(d.messages[i].text) <= MAX_TEXT_LENGTH
  /\ d.topic # None => Len_(d.topic) <= MAX_TOPIC_LENGTH

\* a reply that generation accepts and whose text or topic is too long
Oversized(r) ==
  /\ r.kind = "object" /\ r.hasText /\ Truthy(Strip(r.text))
  /\ \/ Len_(Strip(r.text)) > MAX_TEXT_LENGTH
     \/ r.hasTopic /\ Truthy(r.topic) /\ Len_(Strip(r.topic)) > MAX_TOPIC_LENGTH

\* C29: whatever turns were handled, every stored conversation has at
\* least one message, a first message of the user, messages of role user
\* or bot with a trimmed text of 1 to 2000 characters and a topic of at
\* most 200 characters; a turn whose reply has a longer text or topic ends
\* with a failed save (ValidationError) that writes nothing.
C29_StoredConversationsWithinBounds ==
  /\ \A id \in 1..Len(store) : StoredWithinBounds(store[id])
  /\ \A t \in Threads :
       Done(t) /\ Oversized(reply[t]) =>
         /\ resp[t].exc = "ValidationError"
         /\ IF req[t].conversation_id = NoneId
              THEN SeedStored(t) /\ io[t].writes = 1
              ELSE store = before[t] /\ io[t].writes = 0

\* a turn on the create path whose reply has a topic that is too long
C29_Witness ==
  \E t \in Threads :
    /\ Done(t)
    /\ reply[t].topic = TooLongTopic
    /\ req[t].conversation_id = NoneId
    /\ resp[t].exc = "ValidationError"
    /\ store[Len(store)].topic = None
    /\ Len(before[t]) = 1

(***************************************************************************)
(* Properties of the prompt catalog over the life of the process.          *)
(***************************************************************************)
\* C30: once a prompt catalog is loaded, nothing loads the prompts file
\* again and nothing changes the catalog: no construction of AIService by
\* any thread, first or later.
C30_CatalogLoadedOnce ==
  [][(\E i \in 1..Len(heap) : heap[i].prompts.loaded) =>
       /\ made'.loads = made.loads
       /\ \A i \in 1..Len(heap) :
            heap[i].prompts.loaded => heap'[i].prompts = heap[i].prompts]_vars

====
